---- MODULE Spec2Model ----
(***************************************************************************)
(* A model of BunyanFormattingLayer (src/src/formatting_layer.rs): the     *)
(* builder that configures the layer, and the three lifecycle              *)
(* notifications on_new_span, on_close and on_event that serialise one     *)
(* record each and hand it to the sink in one write_all call.              *)
(*                                                                         *)
(* Strings whose characters matter (span names, messages, span ids) are    *)
(* tuples of one-character strings; field keys are compared for equality   *)
(* only and are TLA+ strings.  A JSON value is a record [t, s, n]: a       *)
(* string, a number, null, or a value serde_json refuses to serialise.     *)
(* A serialised buffer is a sequence of tokens: the opening brace, one     *)
(* token per entry, the closing brace, the line feed.                      *)
(***************************************************************************)
EXTENDS Integers, Sequences, FiniteSets, TLC

VARIABLES
    phase,       \* "setup": builder calls; "run": installed in a subscriber; "rejected": skip_fields returned Err
    layer,       \* the BunyanFormattingLayer struct
    skipErr,     \* the field named by the SkipFieldError of the rejected skip_fields call
    skipCalls,   \* number of skip_fields calls made
    lastSkip,    \* the argument of the last skip_fields call and the skip set before it
    storage,     \* whether JsonStorageLayer sits below the formatting layer
    spans,       \* the registry: span id -> span data, or NoSpan
    stack,       \* per thread, the spans entered and not exited (last = current)
    pend,        \* per thread, the notification that has serialised and not yet written
    step         \* what the step just taken did: the notification, its outcome, its write_all calls

vars == <<phase, layer, skipErr, skipCalls, lastSkip, storage, spans, stack, pend, step>>

----------------------------------------------------------------------------
(* Bounds of the model. *)

\* number of span ids the registry hands out (ids 1..MaxIds)
MaxIds == 2
\* number of skip_fields calls in a setup
MaxSkipCalls == 2

Ids == 1..MaxIds
Threads == {1, 2}
NoSpan == [live |-> FALSE]
NoField == ""
\* Option: None is the empty tuple, Some(x) the tuple of x
None == <<>>
Some(x) == <<x>>

----------------------------------------------------------------------------
(* JSON values and strings. *)

Str(chars) == [t |-> "str", s |-> chars, n |-> 0]
Num(k) == [t |-> "num", s |-> <<>>, n |-> k]
Null == [t |-> "null", s |-> <<>>, n |-> 0]
\* a value whose Serialize implementation returns an error
Unserializable == [t |-> "bad", s |-> <<>>, n |-> 0]

\* Option<u32> / Option<&str> as serde serialises them
OptNum(o) == IF o = None THEN Null ELSE Num(o[1])
OptStr(o) == IF o = None THEN Null ELSE Str(o[1])

Digit(d) == CASE d = 0 -> "0" [] d = 1 -> "1" [] d = 2 -> "2" [] d = 3 -> "3"
              [] d = 4 -> "4" [] d = 5 -> "5" [] d = 6 -> "6" [] d = 7 -> "7"
              [] d = 8 -> "8" [] d = 9 -> "9"

RECURSIVE Decimal(_)
\* Display of an unsigned integer
Decimal(k) == IF k < 10 THEN <<Digit(k)>> ELSE Decimal(k \div 10) \o <<Digit(k % 10)>>

UpperChar(c) == CASE c = "a" -> "A" [] c = "e" -> "E" [] c = "i" -> "I"
                  [] c = "k" -> "K" [] c = "n" -> "N" [] c = "r" -> "R"
                  [] c = "s" -> "S" [] c = "y" -> "Y"
                  [] OTHER -> c

\* str::to_uppercase
ToUppercase(chars) == [i \in 1..Len(chars) |-> UpperChar(chars[i])]

----------------------------------------------------------------------------
(* Keys of the core fields. *)

BUNYAN_VERSION == "v"
LEVEL == "level"
NAME == "name"
HOSTNAME == "hostname"
PID == "pid"
TIME == "time"
MESSAGE == "msg"

BUNYAN_REQUIRED_FIELDS == <<BUNYAN_VERSION, LEVEL, NAME, HOSTNAME, PID, TIME, MESSAGE>>

\* [&str; 7]::contains
RequiredContains(key) == \E i \in 1..Len(BUNYAN_REQUIRED_FIELDS) : BUNYAN_REQUIRED_FIELDS[i] = key

\* a level table with two arms exchanged
to_bunyan_level_swapped(level) ==
    CASE level = "ERROR" -> 50
      [] level = "WARN" -> 30
      [] level = "INFO" -> 40
      [] level = "DEBUG" -> 20
      [] level = "TRACE" -> 10

to_bunyan_level(level) ==
    CASE level = "ERROR" -> 50
      [] level = "WARN" -> 40
      [] level = "INFO" -> 30
      [] level = "DEBUG" -> 20
      [] level = "TRACE" -> 10

----------------------------------------------------------------------------
(* Call sites: the metadata and the fields the instrumented program gives. *)

\* a field map (HashMap) is a sequence of <<key, value>> pairs with distinct
\* keys; the sequence order stands for the map's iteration order
Keys(m) == {m[i][1] : i \in 1..Len(m)}

\* HashMap::get
MapGet(m, key) == IF key \in Keys(m) THEN (CHOOSE i \in 1..Len(m) : m[i][1] = key) ELSE 0

\* HashMap::insert
MapInsert(m, key, value) ==
    IF key \in Keys(m)
    THEN [i \in 1..Len(m) |-> IF m[i][1] = key THEN <<key, value>> ELSE m[i]]
    ELSE Append(m, <<key, value>>)

RECURSIVE MapExtend(_, _)
\* inserting every pair of add into m, in order
MapExtend(m, add) ==
    IF add = <<>> THEN m
    ELSE MapExtend(MapInsert(m, Head(add)[1], Head(add)[2]), Tail(add))

E2E == <<"e", "2", "e">>
SrcFile == <<"e", ".", "r", "s">>

\* span!(Level, name, fields...)
SpanCallsites == {
    [name |-> <<"y", "a", "k">>, level |-> "DEBUG", target |-> E2E,
     line |-> Some(61), file |-> Some(SrcFile),
     fields |-> << <<"a", Num(2)>> >>],
    [name |-> <<"i", "n", " ", "s">>, level |-> "TRACE", target |-> E2E,
     line |-> None, file |-> None,
     fields |-> << <<"b", Num(3)>>, <<"skipped", Num(0)>>, <<"level", Num(7)>> >>] }

\* info!(...), warn!(...), error!(...)
EventCallsites == {
    [level |-> "INFO", target |-> E2E, line |-> Some(64), file |-> Some(SrcFile),
     fields |-> << <<"message", Str(<<"p", "r", "e">>)>> >>],
    [level |-> "WARN", target |-> E2E, line |-> None, file |-> None,
     fields |-> << <<"skipped", Num(1)>>, <<"pid", Num(1)>> >>],
    [level |-> "ERROR", target |-> E2E, line |-> Some(70), file |-> Some(SrcFile),
     fields |-> << <<"message", Num(5)>>, <<"a", Num(9)>> >>],
    [level |-> "INFO", target |-> E2E, line |-> Some(71), file |-> Some(SrcFile),
     fields |-> << <<"message", Str(<<"n", "a", "n">>)>>, <<"x", Unserializable>> >>] }

----------------------------------------------------------------------------
(* The builder. *)

Names == { <<"t", "e", "s", "t">> }
Pids == { 4242 }
Hostnames == { <<"h">> }

\* the default_fields map a program passes to with_default_fields
DefaultFieldChoices == {
    << <<"custom_field", Str(<<"c", "v">>)>>, <<"target", Str(<<"d">>)>>,
       <<"v", Num(9)>>, <<"message", Str(<<"d", "m">>)>> >> }

\* the arguments a program passes to skip_fields
SkipInputs == {
    <<"skipped", "target", "line", "file", "custom_field">>,
    <<"span_id", "elapsed_milliseconds", "span_type">>,
    <<"parent_span_id", "a", "message">>,
    <<"level">>,
    <<"skipped", "msg", "file">>,
    <<"line", "v">> }

with_default_fields(name, pid, hostname, default_fields) ==
    [name |-> name,
     pid |-> pid,
     hostname |-> hostname,
     bunyan_version |-> 0,
     default_fields |-> default_fields,
     skip_fields |-> {},
     serialize_span_fields |-> TRUE,
     serialize_span_id |-> FALSE,
     serialize_span_type |-> FALSE]

RECURSIVE skip_fields_unchecked(_, _)
\* skip_fields without the test for a required field
skip_fields_unchecked(self, fields) ==
    IF fields = <<>> THEN [err |-> NoField, self |-> self]
    ELSE skip_fields_unchecked([self EXCEPT !.skip_fields = @ \cup {Head(fields)}], Tail(fields))

RECURSIVE skip_fields(_, _)
\* the loop of skip_fields: [err |-> the rejected field or NoField, self |-> the layer]
skip_fields(self, fields) ==
    IF fields = <<>> THEN [err |-> NoField, self |-> self]
    ELSE IF RequiredContains(Head(fields))
         THEN [err |-> Head(fields), self |-> self]
         ELSE skip_fields([self EXCEPT !.skip_fields = @ \cup {Head(fields)}], Tail(fields))

\* Display of SkipFieldError: the field, then the fixed text
SkipFieldErrorDisplay(field) == <<field, " is a core field in the bunyan log format, it can't be skipped">>

----------------------------------------------------------------------------
(* Serialisation. *)

Open == [tok |-> "{", k |-> "", v |-> Null]
Entry(key, value) == [tok |-> "entry", k |-> key, v |-> value]
Close == [tok |-> "}", k |-> "", v |-> Null]
LineFeed == [tok |-> "\n", k |-> "", v |-> Null]

\* serde_json::Serializer::serialize_map: the state of the map serializer is
\* the buffer written so far and whether a call returned an error (every
\* call site propagates it with `?`, so nothing is written after it)
serialize_map == [buf |-> <<Open>>, err |-> FALSE]

\* SerializeMap::serialize_entry
serialize_entry(ms, key, value) ==
    IF ms.err THEN ms
    ELSE IF value.t = "bad" THEN [ms EXCEPT !.err = TRUE]
    ELSE [ms EXCEPT !.buf = Append(@, Entry(key, value))]

\* the readings of the wall clock: OffsetDateTime::now_utc() is a date the
\* time crate represents
Clock == { [year |-> 2026] }

\* OffsetDateTime::format(&Rfc3339): an error for a year of more than four digits
FormatRfc3339(now) ==
    IF now.year > 9999 THEN [ok |-> FALSE, s |-> <<>>]
    ELSE [ok |-> TRUE, s |-> Decimal(now.year) \o <<"-", "0", "1", "-", "0", "1", "T", "0", "0", ":", "0", "0", ":", "0", "0", "Z">>]

serialize_bunyan_core_fields(self, ms, message, level, now) ==
    LET m1 == serialize_entry(ms, BUNYAN_VERSION, Num(self.bunyan_version))
        m2 == serialize_entry(m1, NAME, Str(self.name))
        m3 == serialize_entry(m2, MESSAGE, Str(message))
        m4 == serialize_entry(m3, LEVEL, Num(to_bunyan_level(level)))
        m5 == serialize_entry(m4, HOSTNAME, Str(self.hostname))
        m6 == serialize_entry(m5, PID, Num(self.pid))
        time == FormatRfc3339(now)
    IN  IF time.ok THEN serialize_entry(m6, TIME, Str(time.s)) ELSE m6

\* serialize_field without the test of the skip set
serialize_field_unchecked(self, ms, key, value) == serialize_entry(ms, key, value)

serialize_field(self, ms, key, value) ==
    IF key \notin self.skip_fields THEN serialize_entry(ms, key, value) ELSE ms

\* a loop over a field map that stops before the map's last entry
SerializeFieldsButLast(self, ms, fields, dropMessage) ==
    LET step1(m, i) ==
            IF ~RequiredContains(fields[i][1]) /\ ~(dropMessage /\ fields[i][1] = "message")
            THEN IF fields[i][1] \notin self.skip_fields
                 THEN serialize_entry(m, fields[i][1], fields[i][2]) ELSE m
            ELSE m
        run[i \in 0..Len(fields)] == IF i = 0 THEN ms ELSE step1(run[i - 1], i)
    IN  IF fields = <<>> THEN ms ELSE run[Len(fields) - 1]

RECURSIVE SerializeFields(_, _, _, _)
\* the loops over a field map: every entry whose key is not a required field
\* (and, with dropMessage, is not "message") goes through serialize_field
SerializeFields(self, ms, fields, dropMessage) ==
    IF fields = <<>> THEN ms
    ELSE LET key == Head(fields)[1]
             value == Head(fields)[2]
             keep == ~RequiredContains(key) /\ ~(dropMessage /\ key = "message")
         IN  SerializeFields(self,
                             IF keep THEN serialize_field(self, ms, key, value) ELSE ms,
                             Tail(fields), dropMessage)

\* Display of Type with START and END exchanged
TypeDisplaySwapped(ty) ==
    CASE ty = "EnterSpan" -> <<"E", "N", "D">>
      [] ty = "ExitSpan" -> <<"S", "T", "A", "R", "T">>
      [] ty = "Event" -> <<"E", "V", "E", "N", "T">>

\* Display of Type
TypeDisplay(ty) ==
    CASE ty = "EnterSpan" -> <<"S", "T", "A", "R", "T">>
      [] ty = "ExitSpan" -> <<"E", "N", "D">>
      [] ty = "Event" -> <<"E", "V", "E", "N", "T">>

\* a span id formatted without the id
format_span_id_no_id(id) == <<"s", "p", "a", "n", "-">>

\* format!("span-{}", span.id().into_u64())
format_span_id(id) == <<"s", "p", "a", "n", "-">> \o Decimal(id)

\* format!("[{} - {}]", name.to_uppercase(), ty)
format_span_context(name, ty) ==
    <<"[">> \o ToUppercase(name) \o <<" ", "-", " ">> \o TypeDisplay(ty) \o <<"]">>

\* MapSerializer::end, then the trailing new line: Ok(buffer) or Err
Finish(ms) ==
    IF ms.err THEN [ok |-> FALSE, buf |-> <<>>]
    ELSE [ok |-> TRUE, buf |-> ms.buf \o <<Close, LineFeed>>]

\* the fields serialize_span takes from the span: its JsonStorage extension,
\* else the attributes recorded into a fresh JsonStorage, else nothing
SpanVisitor(span, attrs) ==
    IF span.ext # None THEN span.ext[1]
    ELSE IF attrs # None THEN MapExtend(<<>>, attrs[1])
    ELSE <<>>

\* span is the registry's data of the span, id its id; attrs is None or the
\* attributes of the new span
serialize_span(self, span, id, ty, attrs, now) ==
    LET message == IF self.serialize_span_type THEN span.cs.name
                   ELSE format_span_context(span.cs.name, ty)
        m1 == serialize_bunyan_core_fields(self, serialize_map, message, span.cs.level, now)
        m2 == serialize_field(self, m1, "target", Str(span.cs.target))
        m3 == serialize_field(self, m2, "line", OptNum(span.cs.line))
        m4 == serialize_field(self, m3, "file", OptStr(span.cs.file))
        m5 == IF self.serialize_span_type
              THEN serialize_field(self, m4, "span_type", Str(TypeDisplay(ty)))
              ELSE m4
        m6 == IF self.serialize_span_id /\ span.parent # 0
              THEN serialize_field(self, m5, "parent_span_id", Str(format_span_id(span.parent)))
              ELSE m5
        m7 == IF self.serialize_span_id
              THEN serialize_field(self, m6, "span_id", Str(format_span_id(id)))
              ELSE m6
        m8 == SerializeFields(self, m7, self.default_fields, FALSE)
        m9 == SerializeFields(self, m8, SpanVisitor(span, attrs), FALSE)
    IN  Finish(m9)

\* format_event_message that takes the "message" field whatever its type
format_event_message_any_type(current, event, event_visitor, plain_message) ==
    LET i == MapGet(event_visitor, "message")
        message == IF i # 0 THEN event_visitor[i][2].s ELSE event.target
    IN  IF ~plain_message /\ current # NoSpan
        THEN format_span_context(current.cs.name, "Event") \o <<" ">> \o message
        ELSE message

\* the text of an event: its "message" field when that is a string, else its target;
\* prefixed with the span context unless plain_message or there is no current span
format_event_message(current, event, event_visitor, plain_message) ==
    LET i == MapGet(event_visitor, "message")
        message == IF i # 0 /\ event_visitor[i][2].t = "str"
                   THEN event_visitor[i][2].s
                   ELSE event.target
    IN  IF ~plain_message /\ current # NoSpan
        THEN format_span_context(current.cs.name, "Event") \o <<" ">> \o message
        ELSE message

\* the closure `format` of on_event; current is the data of the current span
\* (NoSpan outside any span) and cur its id
FormatEvent(self, event, current, cur, now) ==
    LET event_visitor == MapExtend(<<>>, event.fields)
        message == format_event_message(current, event, event_visitor, self.serialize_span_type)
        m1 == serialize_bunyan_core_fields(self, serialize_map, message, event.level, now)
        m2 == serialize_field(self, m1, "target", Str(event.target))
        m3 == serialize_field(self, m2, "line", OptNum(event.line))
        m4 == serialize_field(self, m3, "file", OptStr(event.file))
        m5 == SerializeFields(self, m4, self.default_fields, TRUE)
        m6 == IF self.serialize_span_id /\ current # NoSpan /\ current.parent # 0
              THEN serialize_field(self, m5, "parent_span_id", Str(format_span_id(current.parent)))
              ELSE m5
        m7 == IF self.serialize_span_id /\ current # NoSpan
              THEN serialize_field(self, m6, "span_id", Str(format_span_id(cur)))
              ELSE m6
        m8 == SerializeFields(self, m7, event_visitor, TRUE)
        m9 == IF self.serialize_span_fields /\ current # NoSpan /\ current.ext # None
              THEN SerializeFields(self, m8, current.ext[1], FALSE)
              ELSE m8
    IN  Finish(m9)

\* emit that writes the object and the line feed in two calls
emit_in_two_writes(buffer) == <<SubSeq(buffer, 1, Len(buffer) - 1), <<buffer[Len(buffer)]>> >>

\* emit: the write_all calls made on the writer, each with its buffer
emit(buffer) == <<buffer>>

----------------------------------------------------------------------------
(* Reading a serialised buffer back. *)

EntryIndexes(buf, key) == {i \in 1..Len(buf) : buf[i].tok = "entry" /\ buf[i].k = key}
Values(buf, key) == {buf[i].v : i \in EntryIndexes(buf, key)}
HasKey(buf, key) == EntryIndexes(buf, key) # {}
BufKeys(buf) == {buf[i].k : i \in {j \in 1..Len(buf) : buf[j].tok = "entry"}}

\* one JSON object followed by a single line feed
CompleteRecord(buf) ==
    /\ Len(buf) >= 3
    /\ buf[1] = Open
    /\ buf[Len(buf) - 1] = Close
    /\ buf[Len(buf)] = LineFeed
    /\ \A i \in 2..(Len(buf) - 2) : buf[i].tok = "entry"

----------------------------------------------------------------------------
(* The registry and the storage layer below the formatting layer. *)

\* Context::lookup_current: the id of the thread's current span, 0 outside any span
Current(t) == IF stack[t] = <<>> THEN 0 ELSE stack[t][Len(stack[t])]

Live == {i \in Ids : spans[i] # NoSpan}
Entered(id) == \E t \in Threads : \E i \in 1..Len(stack[t]) : stack[t][i] = id
HasChild(id) == \E i \in Live : spans[i].parent = id
\* no notification in progress is about the span
Quiet(id) == \A t \in Threads : pend[t].id # id

\* the milliseconds a closing span reports
ElapsedChoices == {7}

\* JsonStorageLayer on a new span: the FieldStore of the span holds the fields
\* of its parent's FieldStore and the span's own attributes
StorageOnNewSpan(parent, attrs) ==
    Some(MapExtend(IF parent # NoSpan /\ parent.ext # None THEN parent.ext[1] ELSE <<>>, attrs))

\* JsonStorageLayer on close: elapsed_milliseconds joins the FieldStore
StorageOnClose(span, elapsed) ==
    [span EXCEPT !.ext = Some(MapInsert(@[1], "elapsed_milliseconds", Num(elapsed)))]

\* the span a thread creates: its parent is the thread's current span.
\* sids records the span_id values the span's own records have carried,
\* enters the number of write_all calls on_new_span has made for the span.
NewSpanData(t, cs) ==
    LET par == Current(t)
    IN  [live |-> TRUE,
         cs |-> cs,
         parent |-> par,
         ext |-> IF storage
                 THEN StorageOnNewSpan(IF par = 0 THEN NoSpan ELSE spans[par], cs.fields)
                 ELSE None,
         sids |-> {},
         enters |-> 0]

----------------------------------------------------------------------------
(* The lifecycle notifications. *)

\* on_new_span whose serialisation fails
on_new_span_failing(self, span, id, attrs, now) == [ok |-> FALSE, buf |-> <<>>]

\* on_new_span: Ok(serialized) or Err
on_new_span(self, span, id, attrs, now) ==
    serialize_span(self, span, id, "EnterSpan", Some(attrs), now)

\* on_close that never finds the JsonStorage extension of the span
on_close_no_extension(self, span, id, now) ==
    serialize_span(self, [span EXCEPT !.ext = None], id, "ExitSpan", None, now)

\* on_close: Ok(serialized) or Err
on_close(self, span, id, now) ==
    serialize_span(self, span, id, "ExitSpan", None, now)

\* on_event that does not look up the parent of the current span
on_event_no_parent(self, event, current, cur, now) ==
    FormatEvent(self, event,
                IF current = NoSpan THEN NoSpan ELSE [current EXCEPT !.parent = 0],
                cur, now)

\* on_event that never adds the fields of the current span
on_event_no_span_fields(self, event, current, cur, now) ==
    FormatEvent([self EXCEPT !.serialize_span_fields = FALSE], event, current, cur, now)

\* on_event: the result of the closure `format`
on_event(self, event, current, cur, now) ==
    FormatEvent(self, event, current, cur, now)

Idle == [pc |-> "idle", id |-> 0]

NoStep == [op |-> "none", thread |-> 0, id |-> 0, parent |-> 0, kind |-> "none",
           cs |-> [level |-> "INFO"], ext |-> FALSE,
           ser |-> TRUE, wok |-> TRUE, calls |-> <<>>, outcome |-> "none"]

Failure(s) == s.outcome = "panicked" \/ (s.outcome = "returned" /\ (~s.ser \/ ~s.wok))

\* what a notification is about: the record kind, the call site, the span (for
\* an event: the current span, 0 outside any span) and its parent
SpanCtx(kind, span, id) ==
    [kind |-> kind, cs |-> span.cs, id |-> id, parent |-> span.parent,
     ext |-> (span.ext # None)]

EventCtx(event, cur) ==
    [kind |-> "Event", cs |-> event, id |-> cur,
     parent |-> IF cur = 0 THEN 0 ELSE spans[cur].parent,
     ext |-> IF cur = 0 THEN FALSE ELSE spans[cur].ext # None]

SidsOf(calls) == UNION {{v.s : v \in Values(calls[i], "span_id")} : i \in 1..Len(calls)}

\* a layer that stops writing once a notification has failed
DeliverUntilFailure(t, op, res, ctx, wok, base) ==
    LET calls == IF res.ok /\ ~Failure(step) THEN emit(res.buf) ELSE <<>>
    IN  /\ step' = [op |-> op, thread |-> t, id |-> ctx.id, parent |-> ctx.parent,
                    kind |-> ctx.kind, cs |-> ctx.cs, ext |-> ctx.ext,
                    ser |-> res.ok, wok |-> (res.ok => wok), calls |-> calls,
                    outcome |-> "returned"]
        /\ spans' = IF op = "on_close" THEN [base EXCEPT ![ctx.id] = NoSpan] ELSE base

\* `if let Ok(buffer) = result { let _ = self.emit(&buffer, meta); }` and the
\* return to the host: the write_all calls are made and their result is
\* dropped.  base is the registry as the handler leaves it; a closed span
\* leaves the registry once on_close has returned.
Deliver(t, op, res, ctx, wok, base) ==
    LET calls == IF res.ok THEN emit(res.buf) ELSE <<>>
        sids == SidsOf(calls)
    IN  /\ step' = [op |-> op, thread |-> t, id |-> ctx.id, parent |-> ctx.parent,
                    kind |-> ctx.kind, cs |-> ctx.cs, ext |-> ctx.ext,
                    ser |-> res.ok, wok |-> (res.ok => wok), calls |-> calls,
                    outcome |-> "returned"]
        /\ spans' = IF op = "on_close" THEN [base EXCEPT ![ctx.id] = NoSpan]
                    ELSE IF op = "on_new_span"
                    THEN [base EXCEPT ![ctx.id].sids = @ \cup sids,
                                      ![ctx.id].enters = @ + Len(calls)]
                    ELSE base

\* `.expect("Span not found, this is a bug")` on a span the registry does not hold
Panic(t, op, id) ==
    /\ step' = [NoStep EXCEPT !.op = op, !.thread = t, !.id = id, !.outcome = "panicked"]
    /\ UNCHANGED spans

cfgVars == <<phase, layer, skipErr, skipCalls, lastSkip, storage>>

\* a thread creates a span: the registry stores it, the storage layer (when
\* installed) attaches its FieldStore, then on_new_span runs
NewSpan(t, id, cs, wok, now) ==
    /\ phase = "run"
    /\ pend[t] = Idle
    /\ spans[id] = NoSpan
    /\ LET span == NewSpanData(t, cs)
       IN  Deliver(t, "on_new_span", on_new_span(layer, span, id, cs.fields, now),
                   SpanCtx("EnterSpan", span, id), wok, [spans EXCEPT ![id] = span])
    /\ UNCHANGED <<cfgVars, stack, pend>>

\* a thread enters a span (no notification reaches the formatting layer)
Enter(t, id) ==
    /\ phase = "run"
    /\ pend[t] = Idle
    /\ spans[id] # NoSpan
    /\ Quiet(id)
    /\ \A i \in 1..Len(stack[t]) : stack[t][i] # id
    /\ stack' = [stack EXCEPT ![t] = Append(@, id)]
    /\ step' = NoStep
    /\ UNCHANGED <<cfgVars, spans, pend>>

\* a thread exits its current span
Exit(t) ==
    /\ phase = "run"
    /\ pend[t] = Idle
    /\ stack[t] # <<>>
    /\ stack' = [stack EXCEPT ![t] = SubSeq(@, 1, Len(@) - 1)]
    /\ step' = NoStep
    /\ UNCHANGED <<cfgVars, spans, pend>>

\* the span as on_close sees it: the storage layer has closed it first
Closing(id, elapsed) ==
    IF storage THEN StorageOnClose(spans[id], elapsed) ELSE spans[id]

\* the host signals the close of a span: of a span no thread is in and no
\* live span descends from, or of an id the registry does not hold
CloseSpan(t, id, wok, now, elapsed) ==
    /\ phase = "run"
    /\ pend[t] = Idle
    /\ Quiet(id)
    /\ IF spans[id] = NoSpan
       THEN Panic(t, "on_close", id)
       ELSE /\ ~Entered(id)
            /\ ~HasChild(id)
            /\ LET span == Closing(id, elapsed)
               IN  Deliver(t, "on_close", on_close(layer, span, id, now),
                           SpanCtx("ExitSpan", span, id), wok, [spans EXCEPT ![id] = span])
    /\ UNCHANGED <<cfgVars, stack, pend>>

\* a thread emits an event in its current span, or outside any span
EmitEvent(t, event, wok, now) ==
    /\ phase = "run"
    /\ pend[t] = Idle
    /\ LET cur == Current(t)
           current == IF cur = 0 THEN NoSpan ELSE spans[cur]
       IN  Deliver(t, "on_event", on_event(layer, event, current, cur, now),
                   EventCtx(event, cur), wok, spans)
    /\ UNCHANGED <<cfgVars, stack, pend>>

----------------------------------------------------------------------------
(* The builder calls. *)

runVars == <<storage, spans, stack, pend, step>>

\* BunyanFormattingLayer::serialize_span_fields
SerializeSpanFields(value) ==
    /\ phase = "setup"
    /\ layer' = [layer EXCEPT !.serialize_span_fields = value]
    /\ UNCHANGED <<phase, skipErr, skipCalls, lastSkip, runVars>>

\* BunyanFormattingLayer::serialize_span_id
SerializeSpanId(value) ==
    /\ phase = "setup"
    /\ layer' = [layer EXCEPT !.serialize_span_id = value]
    /\ UNCHANGED <<phase, skipErr, skipCalls, lastSkip, runVars>>

\* BunyanFormattingLayer::serialize_span_type
SerializeSpanType(value) ==
    /\ phase = "setup"
    /\ layer' = [layer EXCEPT !.serialize_span_type = value]
    /\ UNCHANGED <<phase, skipErr, skipCalls, lastSkip, runVars>>

\* BunyanFormattingLayer::skip_fields: Ok(self), or Err and the layer is gone
SkipFieldsCall(fields) ==
    /\ phase = "setup"
    /\ skipCalls < MaxSkipCalls
    /\ LET r == skip_fields(layer, fields)
       IN  /\ skipCalls' = skipCalls + 1
           /\ lastSkip' = [fields |-> fields, before |-> layer.skip_fields]
           /\ IF r.err = NoField
              THEN /\ layer' = r.self
                   /\ UNCHANGED <<phase, skipErr>>
              ELSE /\ phase' = "rejected"
                   /\ skipErr' = r.err
                   /\ UNCHANGED layer
    /\ UNCHANGED runVars

\* Registry::default().with(JsonStorageLayer).with(layer), or .with(layer) alone
Install(withStorage) ==
    /\ phase = "setup"
    /\ phase' = "run"
    /\ storage' = withStorage
    /\ UNCHANGED <<layer, skipErr, skipCalls, lastSkip, spans, stack, pend, step>>

----------------------------------------------------------------------------
(* The builder on its own: the calls a program makes before it installs the *)
(* layer in a subscriber.                                                   *)

InitSetup ==
    /\ phase = "setup"
    /\ layer \in {with_default_fields(n, p, h, d) :
                    n \in Names, p \in Pids, h \in Hostnames, d \in DefaultFieldChoices}
    /\ skipErr = NoField
    /\ skipCalls = 0
    /\ lastSkip = [fields |-> <<>>, before |-> {}]
    /\ storage = FALSE
    /\ spans = [i \in Ids |-> NoSpan]
    /\ stack = [t \in Threads |-> <<>>]
    /\ pend = [t \in Threads |-> Idle]
    /\ step = NoStep

Setup ==
    \/ \E value \in BOOLEAN : SerializeSpanFields(value)
    \/ \E value \in BOOLEAN : SerializeSpanId(value)
    \/ \E value \in BOOLEAN : SerializeSpanType(value)
    \/ \E fields \in SkipInputs : SkipFieldsCall(fields)
    \/ \E withStorage \in BOOLEAN : Install(withStorage)

SpecSetup == InitSetup /\ [][Setup]_vars

----------------------------------------------------------------------------
(* The specification: the notifications of one thread to an installed layer. *)

\* the subscribers the runs are made with: a layer the builder has made, with
\* or without the storage layer under it
Subscribers ==
    LET base == with_default_fields(<<"t", "e", "s", "t">>, 4242, <<"h">>,
                    << <<"custom_field", Str(<<"c", "v">>)>>, <<"target", Str(<<"d">>)>>,
                       <<"v", Num(9)>>, <<"message", Str(<<"d", "m">>)>> >>)
        ids == [base EXCEPT !.serialize_span_id = TRUE, !.serialize_span_type = TRUE]
        A == <<"skipped", "target", "line", "file", "custom_field">>
        B == <<"span_id", "elapsed_milliseconds", "span_type">>
        C == <<"parent_span_id", "a", "message">>
    IN  { [layer |-> base, storage |-> FALSE],
          [layer |-> base, storage |-> TRUE],
          [layer |-> ids, storage |-> TRUE],
          [layer |-> skip_fields(ids, A).self, storage |-> TRUE],
          [layer |-> skip_fields(ids, B).self, storage |-> TRUE],
          [layer |-> skip_fields([base EXCEPT !.serialize_span_id = TRUE,
                                              !.serialize_span_fields = FALSE], C).self,
           storage |-> FALSE],
          [layer |-> [base EXCEPT !.serialize_span_type = TRUE,
                                  !.serialize_span_fields = FALSE],
           storage |-> TRUE],
          [layer |-> skip_fields([base EXCEPT !.serialize_span_id = TRUE], A).self,
           storage |-> FALSE] }

Init ==
    /\ phase = "run"
    /\ \E sub \in Subscribers : layer = sub.layer /\ storage = sub.storage
    /\ skipErr = NoField
    /\ skipCalls = 0
    /\ lastSkip = [fields |-> <<>>, before |-> {}]
    /\ spans = [i \in Ids |-> NoSpan]
    /\ stack = [t \in Threads |-> <<>>]
    /\ pend = [t \in Threads |-> Idle]
    /\ step = NoStep

Next ==
    \/ \E id \in Ids, cs \in SpanCallsites, wok \in BOOLEAN, now \in Clock : NewSpan(1, id, cs, wok, now)
    \/ \E id \in Ids : Enter(1, id)
    \/ Exit(1)
    \/ \E id \in Ids, wok \in BOOLEAN, now \in Clock, elapsed \in ElapsedChoices : CloseSpan(1, id, wok, now, elapsed)
    \/ \E event \in EventCallsites, wok \in BOOLEAN, now \in Clock : EmitEvent(1, event, wok, now)

Spec == Init /\ [][Next]_vars

----------------------------------------------------------------------------
(* The notifications of concurrent threads.  A handler serialises into a   *)
(* buffer of its own (Begin...), and the write to the shared sink is a     *)
(* later step (EndNotification), so the handlers of two threads interleave. *)
(* The threads create and close root spans and emit events outside spans;   *)
(* the nesting of spans is explored by Spec.                                *)

Pending(op, id, res, ctx) == [pc |-> "emit", id |-> id, op |-> op, res |-> res, ctx |-> ctx]

BeginNewSpan(t, id, cs, now) ==
    /\ phase = "run"
    /\ pend[t] = Idle
    /\ spans[id] = NoSpan
    /\ LET span == NewSpanData(t, cs)
       IN  /\ spans' = [spans EXCEPT ![id] = span]
           /\ pend' = [pend EXCEPT ![t] =
                         Pending("on_new_span", id, on_new_span(layer, span, id, cs.fields, now),
                                 SpanCtx("EnterSpan", span, id))]
    /\ step' = NoStep
    /\ UNCHANGED <<cfgVars, stack>>

BeginClose(t, id, now, elapsed) ==
    /\ phase = "run"
    /\ pend[t] = Idle
    /\ Quiet(id)
    /\ IF spans[id] = NoSpan
       THEN /\ Panic(t, "on_close", id)
            /\ UNCHANGED pend
       ELSE /\ ~Entered(id)
            /\ ~HasChild(id)
            /\ LET span == Closing(id, elapsed)
               IN  /\ spans' = [spans EXCEPT ![id] = span]
                   /\ pend' = [pend EXCEPT ![t] =
                                 Pending("on_close", id, on_close(layer, span, id, now),
                                         SpanCtx("ExitSpan", span, id))]
            /\ step' = NoStep
    /\ UNCHANGED <<cfgVars, stack>>

BeginEvent(t, event, now) ==
    /\ phase = "run"
    /\ pend[t] = Idle
    /\ LET cur == Current(t)
           current == IF cur = 0 THEN NoSpan ELSE spans[cur]
       IN  pend' = [pend EXCEPT ![t] =
                      Pending("on_event", 0, on_event(layer, event, current, cur, now),
                              EventCtx(event, cur))]
    /\ step' = NoStep
    /\ UNCHANGED <<cfgVars, spans, stack>>

EndNotification(t, wok) ==
    /\ pend[t].pc = "emit"
    /\ Deliver(t, pend[t].op, pend[t].res, pend[t].ctx, wok, spans)
    /\ pend' = [pend EXCEPT ![t] = Idle]
    /\ UNCHANGED <<cfgVars, stack>>

\* the layers the concurrent runs are made with, built by the builder
ConcLayers ==
    LET base == with_default_fields(<<"t", "e", "s", "t">>, 4242, <<"h">>, <<>>)
    IN  { [base EXCEPT !.serialize_span_id = TRUE],
          [skip_fields(base, <<"skipped", "file">>).self EXCEPT !.serialize_span_type = TRUE] }

InitConc ==
    /\ phase = "run"
    /\ layer \in ConcLayers
    /\ skipErr = NoField
    /\ skipCalls = 0
    /\ lastSkip = [fields |-> <<>>, before |-> {}]
    /\ storage \in BOOLEAN
    /\ spans = [i \in Ids |-> NoSpan]
    /\ stack = [t \in Threads |-> <<>>]
    /\ pend = [t \in Threads |-> Idle]
    /\ step = NoStep

NextConc ==
    \E t \in Threads :
        \/ \E id \in Ids, cs \in SpanCallsites, now \in Clock : BeginNewSpan(t, id, cs, now)
        \/ \E id \in Ids, now \in Clock, elapsed \in ElapsedChoices : BeginClose(t, id, now, elapsed)
        \/ \E event \in EventCallsites, now \in Clock : BeginEvent(t, event, now)
        \/ \E wok \in BOOLEAN : EndNotification(t, wok)

SpecConc == InitConc /\ [][NextConc]_vars

----------------------------------------------------------------------------
(* The claims. *)

CoreKeys == {"v", "name", "msg", "level", "hostname", "pid", "time"}
Calls == {step.calls[i] : i \in 1..Len(step.calls)}
Emitted == step.outcome = "returned" /\ step.calls # <<>>

\* C1: every record emitted by on_new_span, on_close or on_event holds the
\* seven core fields v, name, msg, level, hostname, pid and time; its name is
\* the configured name and its level is 10, 20, 30, 40 or 50 for trace,
\* debug, info, warn or error.
C1_CoreFieldsPresent ==
    \A buf \in Calls :
        /\ \A key \in CoreKeys : HasKey(buf, key)
        /\ Values(buf, "name") = {Str(layer.name)}
        /\ Values(buf, "level") =
             {Num(CASE step.cs.level = "TRACE" -> 10
                    [] step.cs.level = "DEBUG" -> 20
                    [] step.cs.level = "INFO" -> 30
                    [] step.cs.level = "WARN" -> 40
                    [] step.cs.level = "ERROR" -> 50)}

\* an event of each of two levels has been emitted by a layer with a skip set
\* and default fields that name a core field
C1_Witness ==
    /\ Emitted
    /\ step.op = "on_event"
    /\ step.cs.level = "WARN"
    /\ layer.skip_fields # {}
    /\ "v" \in Keys(layer.default_fields)

\* C2 as stated: every record emitted by on_close holds elapsed_milliseconds,
\* with or without a FieldStore attached to the span.
C2_ExitAlwaysHasElapsed ==
    step.op = "on_close" => \A buf \in Calls : HasKey(buf, "elapsed_milliseconds")

\* C2 amended: a record emitted by on_close holds elapsed_milliseconds exactly
\* when a FieldStore is attached to the span and elapsed_milliseconds is not
\* in the skip set, in the bracketed-message mode and in the span-type mode.
C2_ExitHasElapsedWithStore ==
    step.op = "on_close" =>
        \A buf \in Calls :
            HasKey(buf, "elapsed_milliseconds")
                <=> (step.ext /\ "elapsed_milliseconds" \notin layer.skip_fields)

\* a span with a FieldStore has closed in the span-type mode and its record
\* holds elapsed_milliseconds
C2_Witness ==
    /\ Emitted
    /\ step.op = "on_close"
    /\ step.ext
    /\ layer.serialize_span_type
    /\ HasKey(step.calls[1], "elapsed_milliseconds")

\* C3: no key of the skip set appears in an emitted record.
C3_SkippedKeysAbsent ==
    \A buf \in Calls : BufKeys(buf) \cap layer.skip_fields = {}

\* an event was emitted in a span by a layer that skips a metadata key, a
\* default field and a field the event and the span carry
C3_Witness ==
    /\ Emitted
    /\ step.op = "on_event"
    /\ step.id # 0
    /\ {"target", "custom_field", "skipped"} \subseteq layer.skip_fields
    /\ "skipped" \in Keys(step.cs.fields)

\* C4 as stated: every key of the default fields that is not a core field
\* name is in every emitted record.
C4_DefaultsAlwaysPresent ==
    \A buf \in Calls :
        \A key \in Keys(layer.default_fields) \ CoreKeys : HasKey(buf, key)

\* C4 amended: every key of the default fields that is not a core field name,
\* is not in the skip set and, in an event record, is not "message", is in
\* the emitted record.
C4_DefaultsPresentUnlessSkipped ==
    \A buf \in Calls :
        \A key \in Keys(layer.default_fields) \ CoreKeys :
            (key \notin layer.skip_fields /\ ~(step.op = "on_event" /\ key = "message"))
                => HasKey(buf, key)

\* a span record was emitted by a layer whose default fields are not skipped
C4_Witness ==
    /\ Emitted
    /\ step.op = "on_new_span"
    /\ "message" \in Keys(layer.default_fields) \ layer.skip_fields
    /\ HasKey(step.calls[1], "message")

\* C5: skip_fields returns an error, naming the field, exactly when its
\* argument holds a core field; otherwise every name of the argument joins
\* the skip set.  No core field is ever in the skip set of a layer.
C5_SkipFieldsRejectsCoreFields ==
    LET names == {lastSkip.fields[i] : i \in 1..Len(lastSkip.fields)}
    IN  /\ (phase = "rejected") <=> (names \cap CoreKeys # {})
        /\ phase = "rejected" => skipErr \in names \cap CoreKeys
        /\ phase # "rejected" =>
              /\ skipErr = NoField
              /\ layer.skip_fields = lastSkip.before \cup names
              /\ layer.skip_fields \cap CoreKeys = {}

\* skip_fields has accepted target, line and file
C5_Witness ==
    /\ phase = "setup"
    /\ skipCalls > 0
    /\ {"target", "line", "file"} \subseteq layer.skip_fields


\* C6: no key appears twice in an emitted record.
C6_NoDuplicateKeys ==
    \A buf \in Calls : \A key \in BufKeys(buf) : Cardinality(EntryIndexes(buf, key)) = 1

Notifications == {"on_new_span", "on_close", "on_event"}

\* C7 as stated: no notification panics, the close of a span the registry
\* does not hold included.
C7_NoNotificationPanics == step.outcome # "panicked"

\* C7 amended: a notification about a span the registry holds, and every
\* on_event, returns to the host, whatever happened to the notifications
\* before it, and makes its write_all call when it has serialised its record,
\* whether or not the write succeeds; on_close of a span the registry does
\* not hold panics.
C7_ReturnsUnlessSpanUnknown ==
    [][step'.op \in Notifications =>
         IF step'.op = "on_close" /\ spans[step'.id] = NoSpan
         THEN step'.outcome = "panicked"
         ELSE /\ step'.outcome = "returned"
              /\ step'.ser => Len(step'.calls) = 1]_vars

\* on_close has returned to the host although the write of its record failed
C7_Witness ==
    /\ step.op = "on_close"
    /\ step.outcome = "returned"
    /\ step.ser
    /\ ~step.wok
    /\ Len(step.calls) = 1

\* C8: with the notifications of two threads interleaved, a notification
\* that returns has made one write_all call when its serialisation succeeded
\* and none when it failed, and the buffer of a write_all call is one whole
\* record: an object and one line feed.
C8_OneWritePerRecord ==
    step.outcome = "returned" =>
        /\ step.ser => Len(step.calls) = 1
        /\ ~step.ser => step.calls = <<>>
        /\ \A buf \in Calls : CompleteRecord(buf)

\* a thread has written its record while the other thread holds a serialised
\* record it has not written yet
C8_Witness ==
    /\ Emitted
    /\ step.ser
    /\ \E u \in Threads \ {step.thread} : pend[u].pc = "emit" /\ pend[u].res.ok

\* C9: with span ids serialised and span_id and parent_span_id not skipped,
\* the record of an event outside any span has neither key; the record of an
\* event in a root span has span_id and no parent_span_id; the record of an
\* event in a child span has both, and its parent_span_id is the span_id of
\* the records of the events of the parent span.
C9_EventSpanIds ==
    (/\ step.op = "on_event"
     /\ step.calls # <<>>
     /\ layer.serialize_span_id
     /\ "span_id" \notin layer.skip_fields
     /\ "parent_span_id" \notin layer.skip_fields)
    => LET buf == step.calls[1]
       IN  IF step.id = 0
           THEN ~HasKey(buf, "span_id") /\ ~HasKey(buf, "parent_span_id")
           ELSE IF step.parent = 0
           THEN HasKey(buf, "span_id") /\ ~HasKey(buf, "parent_span_id")
           ELSE /\ HasKey(buf, "span_id")
                /\ HasKey(buf, "parent_span_id")
                /\ \A event \in EventCallsites, now \in Clock :
                     LET r == FormatEvent(layer, event, spans[step.parent], step.parent, now)
                     IN  r.ok => Values(buf, "parent_span_id") = Values(r.buf, "span_id")

\* an event has been emitted in a child span, with the span ids serialised
C9_Witness ==
    /\ Emitted
    /\ step.op = "on_event"
    /\ step.parent # 0
    /\ layer.serialize_span_id
    /\ HasKey(step.calls[1], "parent_span_id")
    /\ HasKey(step.calls[1], "span_id")

\* C10 as stated: the span_id of the record of a new span is the span_id of
\* the records of no other span: of no span that is live, and of no span that
\* has been closed (here the span whose on_close came just before).
C10_SpanIdsNeverRepeat ==
    [][step'.op = "on_new_span" =>
         /\ \A j \in Live : SidsOf(step'.calls) \cap spans[j].sids = {}
         /\ step.op = "on_close" => SidsOf(step'.calls) \cap SidsOf(step.calls) = {}]_vars

\* C10 amended: two spans that are live at the same time never have the same
\* span_id: the span_id of a record of a span is the span_id of no record of
\* another span that is live when the record is written.
C10_LiveSpanIdsDiffer ==
    /\ \A i \in Live : \A j \in Live \ {i} : spans[i].sids \cap spans[j].sids = {}
    /\ step.op = "on_close" => \A j \in Live : SidsOf(step.calls) \cap spans[j].sids = {}

\* two live spans have both had their span_id written
C10_Witness ==
    \E i \in Live : \E j \in Live \ {i} : spans[i].sids # {} /\ spans[j].sids # {}

RECURSIVE Ancestors(_)
\* the spans above a live span: its parent, the parent of its parent, ...
Ancestors(id) ==
    IF spans[id].parent = 0 THEN {}
    ELSE {spans[id].parent} \cup Ancestors(spans[id].parent)

\* the fields a program attached to a span that are neither reserved nor skipped
AttachedKeys(id) == Keys(spans[id].cs.fields) \ (CoreKeys \cup layer.skip_fields)

C12_EnterEventsExitInOrder ==
    /\ [](\A i \in Live : spans[i].enters = 1)
    /\ [][(step'.op = "on_new_span") =>
             (/\ spans[step'.id] = NoSpan
              /\ step'.kind = "EnterSpan"
              /\ Len(step'.calls) = 1)]_vars
    /\ [][(step'.op = "on_event" /\ step'.id # 0) =>
             (/\ spans[step'.id] # NoSpan
              /\ spans[step'.id].enters = 1
              /\ spans'[step'.id] = spans[step'.id])]_vars
    /\ [][(step'.op = "on_close" /\ step'.outcome = "returned") =>
             (/\ spans[step'.id] # NoSpan
              /\ spans[step'.id].enters = 1
              /\ ~Entered(step'.id)
              /\ step'.kind = "ExitSpan"
              /\ Len(step'.calls) = 1
              /\ spans'[step'.id] = NoSpan)]_vars
    /\ [][(stack' # stack) => (step' = NoStep /\ spans' = spans)]_vars

\* an event has been emitted in a span the thread entered, after the one
\* SpanEnter call of the span
C12_Witness ==
    /\ Emitted
    /\ step.op = "on_event"
    /\ step.id # 0
    /\ spans[step.id].enters = 1
    /\ HasChild(step.id)

\* the tag of a span record
Tag == IF step.kind = "EnterSpan" THEN <<"S", "T", "A", "R", "T">> ELSE <<"E", "N", "D">>

\* "[" + UPPERCASE(name) + " - " + tag + "]"
Bracketed(name, tag) == <<"[">> \o ToUppercase(name) \o <<" ", "-", " ">> \o tag \o <<"]">>

\* C13 as stated: a span record has, with serialize_span_type off, the msg
\* "[" + UPPERCASE(span name) + " - " + START or END + "]" and no span_type;
\* with serialize_span_type on, the span name as msg and span_type START or
\* END, whatever the skip set.
C13_SpanMessageAndType ==
    step.kind \in {"EnterSpan", "ExitSpan"} =>
        \A buf \in Calls :
            IF layer.serialize_span_type
            THEN /\ Values(buf, "msg") = {Str(step.cs.name)}
                 /\ Values(buf, "span_type") = {Str(Tag)}
            ELSE /\ Values(buf, "msg") = {Str(Bracketed(step.cs.name, Tag))}
                 /\ ~HasKey(buf, "span_type")

\* C13 amended: as stated, but with serialize_span_type on the record holds
\* span_type only when span_type is not in the skip set.
C13_SpanMessageAndTypeUnlessSkipped ==
    step.kind \in {"EnterSpan", "ExitSpan"} =>
        \A buf \in Calls :
            IF layer.serialize_span_type
            THEN /\ Values(buf, "msg") = {Str(step.cs.name)}
                 /\ IF "span_type" \in layer.skip_fields
                    THEN ~HasKey(buf, "span_type")
                    ELSE Values(buf, "span_type") = {Str(Tag)}
            ELSE /\ Values(buf, "msg") = {Str(Bracketed(step.cs.name, Tag))}
                 /\ ~HasKey(buf, "span_type")

\* the span "in s" has closed with serialize_span_type off: its msg is
\* "[IN S - END]"
C13_Witness ==
    /\ Emitted
    /\ step.kind = "ExitSpan"
    /\ ~layer.serialize_span_type
    /\ Values(step.calls[1], "msg") = {Str(<<"[", "I", "N", " ", "S", " ", "-", " ", "E", "N", "D", "]">>)}

\* the message field of an event, when it has one that is a string
StringMessages(event) ==
    {event.fields[i][2].s : i \in {j \in 1..Len(event.fields) :
                                     /\ event.fields[j][1] = "message"
                                     /\ event.fields[j][2].t = "str"}}

\* C14: the msg of an event record is the event's message field when the
\* event has one and it is a string, and the event's target otherwise; with
\* serialize_span_type off and a current span the text follows
\* "[" + UPPERCASE(current span name) + " - EVENT] ", and in every other case
\* the msg is the text alone.
C14_EventMessage ==
    step.op = "on_event" =>
        \A buf \in Calls :
            LET text == IF StringMessages(step.cs) # {}
                        THEN CHOOSE m \in StringMessages(step.cs) : TRUE
                        ELSE step.cs.target
                prefix == IF ~layer.serialize_span_type /\ step.id # 0
                          THEN Bracketed(spans[step.id].cs.name, <<"E", "V", "E", "N", "T">>) \o <<" ">>
                          ELSE <<>>
            IN  Values(buf, "msg") = {Str(prefix \o text)}

\* an event whose message field is a number was emitted in the span "yak"
\* with serialize_span_type off: its msg is "[YAK - EVENT] e2e"
C14_Witness ==
    /\ Emitted
    /\ step.op = "on_event"
    /\ step.id # 0
    /\ "message" \in Keys(step.cs.fields)
    /\ StringMessages(step.cs) = {}
    /\ Values(step.calls[1], "msg") =
         {Str(<<"[", "Y", "A", "K", " ", "-", " ", "E", "V", "E", "N", "T", "]", " ", "e", "2", "e">>)}

\* the groups of the emission order a key can belong to in the record of the
\* step: 1 core fields, 2 target, line, file, 3 span_type and the span ids,
\* 4 default fields, 5 the fields of the event, 6 the fields of the span
GroupsOf(key) ==
    {g \in 1..6 :
        \/ g = 1 /\ key \in CoreKeys
        \/ g = 2 /\ key \in {"target", "line", "file"}
        \/ g = 3 /\ key \in {"span_type", "parent_span_id", "span_id"}
        \/ g = 4 /\ key \in Keys(layer.default_fields)
        \/ g = 5 /\ step.op = "on_event" /\ key \in Keys(step.cs.fields)
        \/ g = 6 /\ key \in {"elapsed_milliseconds"} \cup UNION {Keys(cs.fields) : cs \in SpanCallsites}}

\* the place of a key in its group
RankOf(key) ==
    CASE key = "span_type" -> 1
      [] key = "parent_span_id" -> 2
      [] key = "span_id" -> 3
      [] OTHER -> 0

\* C15: in every record the entries whose key belongs to one group only come
\* in the order of the groups, for the three kinds of record alike, and
\* span_type comes before parent_span_id and parent_span_id before span_id:
\* so the span ids come before every default field in an event record too.
C15_GroupOrder ==
    \A buf \in Calls :
        \A i \in 1..Len(buf) : \A j \in (i + 1)..Len(buf) :
            (/\ buf[i].tok = "entry"
             /\ buf[j].tok = "entry"
             /\ Cardinality(GroupsOf(buf[i].k)) = 1
             /\ Cardinality(GroupsOf(buf[j].k)) = 1)
            => LET gi == CHOOSE g \in GroupsOf(buf[i].k) : TRUE
                   gj == CHOOSE g \in GroupsOf(buf[j].k) : TRUE
               IN  /\ gi <= gj
                   /\ gi = gj => RankOf(buf[i].k) <= RankOf(buf[j].k)

====
